---- MODULE Spec2Model ----
(***************************************************************************)
(* Model of src/app/api/auth/[...nextauth]/route.ts: the NextAuth          *)
(* callbacks signIn (identity reconciliation against the User collection), *)
(* jwt (projection of a user record into the session token) and session    *)
(* (projection of the token into the outward session object).              *)
(*                                                                         *)
(* A JavaScript value that may be undefined is modelled as a sequence of   *)
(* length at most one: None is undefined, Some(v) is the value v.          *)
(* Strings that the code lower-cases are sequences of one-letter strings.  *)
(***************************************************************************)
EXTENDS Integers, Sequences, FiniteSets, TLC

VARIABLES
    env,      \* process.env: ADMIN_EMAIL_1, ADMIN_EMAIL_2
    store,    \* the User collection, in insertion order
    now,      \* the clock read by new Date()
    pending,  \* identity object and account of a sign-in that signIn accepted
    token,    \* the session token (JWT) held by the client
    session,  \* the session object of the request being answered
    last,     \* what the last handler invocation did
    reqs,     \* the signIn invocations in flight, each at one of its awaits
    uniqueEmail  \* the collection rejects a second document with an email

vars == <<env, store, now, pending, token, session, last, reqs, uniqueEmail>>

----------------------------------------------------------------------------
(* Bounds of the model *)

MaxNow == 1        \* the clock runs over 0..MaxNow
MaxUsers == 2      \* the collection holds at most MaxUsers documents
MaxSuffix == 0     \* suffixes the Username Generator tries after the base

----------------------------------------------------------------------------
(* Values *)

None == <<>>
Some(v) == <<v>>

LowerOf == [c \in {"a", "A", "d", "D", "u", "U", "@"} |->
              CASE c = "A" -> "a" [] c = "D" -> "d" [] c = "U" -> "u" [] OTHER -> c]

\* String.prototype.toLowerCase
toLowerCase(s) == [i \in 1..Len(s) |-> LowerOf[s[i]]]

\* Identity objects handed to signIn by the two providers: the same mailbox
\* written in two letter cases with different profiles, and a second mailbox
\* whose profile name collides with the first.
Identities ==
    { [email |-> <<"a", "d">>, name |-> "ann", image |-> Some("img1")],
      [email |-> <<"A", "D">>, name |-> "bob", image |-> None],
      [email |-> <<"u">>,      name |-> "ann", image |-> None] }

Providers == {"discord", "google", "github"}

\* Values of the ADMIN_EMAIL_n environment variables: the first is unset or
\* names the first mailbox, the second always names the second mailbox.
AdminEnvValues ==
    [ADMIN_EMAIL_1 |-> {None, Some(<<"A", "d">>)},
     ADMIN_EMAIL_2 |-> {Some(<<"U">>)}]

\* ObjectId.prototype.toString, and the cast findById applies to its argument
IdToString(n) == <<"oid", n>>
IsObjectIdString(s) == Len(s) = 2 /\ s[1] = "oid"
CastObjectId(s) == s[2]

\* The id a provider puts on the identity object before signIn runs
ProviderId(provider) == <<"ext", 0>>

----------------------------------------------------------------------------
(* The allow-list *)

\* Array.prototype.filter(Boolean): undefined and '' are dropped
Truthy(v) == v # None /\ v[1] # <<>>

\* isAdminEmail comparing the address as written, without lower-casing it
isAdminEmailCaseSensitive(email, e) ==
    LET adminEmails == { toLowerCase(v[1]) :
                           v \in { w \in {e.ADMIN_EMAIL_1, e.ADMIN_EMAIL_2} : Truthy(w) } }
    IN  email \in adminEmails

\* function isAdminEmail(email)
isAdminEmail(email, e) ==
    LET adminEmails == { toLowerCase(v[1]) :
                           v \in { w \in {e.ADMIN_EMAIL_1, e.ADMIN_EMAIL_2} : Truthy(w) } }
    IN  toLowerCase(email) \in adminEmails

----------------------------------------------------------------------------
(* The User collection and the Username Generator *)

\* User.findOne({ email }): the first document with that email, 0 for null
findOne(st, email) ==
    LET hits == { i \in 1..Len(st) : st[i].email = email }
    IN  IF hits = {} THEN 0 ELSE CHOOSE i \in hits : \A j \in hits : i <= j

\* User.findById(id): the position of the document with that _id, 0 for null
findById(st, id) ==
    IF id # None /\ IsObjectIdString(id[1]) /\ CastObjectId(id[1]) \in 1..Len(st)
    THEN CastObjectId(id[1]) ELSE 0

\* generateUsername(user): a handle derived from the profile name
generateUsername(user) == user.name

\* ensureUniqueUsername(base): the base, or the base with the first free
\* suffix; None when every candidate is taken (the promise rejects)
ensureUniqueUsername(base, st) ==
    LET taken == { st[i].username : i \in 1..Len(st) }
        free  == { k \in 0..MaxSuffix : <<base, k>> \notin taken }
    IN  IF free = {} THEN None
        ELSE Some(<<base, CHOOSE k \in free : \A j \in free : k <= j>>)

ZeroStats ==
    [contributionPoints |-> 0, feedbackSubmitted |-> 0, bugsReported |-> 0,
     featuresProposed |-> 0, dataCorrections |-> 0, correctionsAccepted |-> 0]

DefaultPreferences ==
    [emailNotifications |-> FALSE, publicProfile |-> TRUE, showContributions |-> TRUE]

\* The User constructor keeping the address as the provider wrote it
NewUserRawEmail(user, username, e, t, id) ==
    [_id         |-> id,
     email       |-> user.email,
     displayName |-> user.name,
     username    |-> username,
     image       |-> user.image,
     vrHeadset   |-> None,
     level       |-> 1,
     rank        |-> IF isAdminEmail(user.email, e) THEN "elite" ELSE "recruit",
     badges      |-> <<>>,
     stats       |-> ZeroStats,
     roles       |-> IF isAdminEmail(user.email, e)
                     THEN Some(<<"user", "admin">>) ELSE Some(<<"user">>),
     preferences |-> DefaultPreferences,
     isActive    |-> TRUE,
     isBanned    |-> FALSE,
     lastLoginAt |-> t]

\* new User({...}) in the branch for an email without a record
NewUser(user, username, e, t, id) ==
    [_id         |-> id,
     email       |-> toLowerCase(user.email),
     displayName |-> user.name,
     username    |-> username,
     image       |-> user.image,
     vrHeadset   |-> None,
     level       |-> 1,
     rank        |-> IF isAdminEmail(user.email, e) THEN "elite" ELSE "recruit",
     badges      |-> <<>>,
     stats       |-> ZeroStats,
     roles       |-> IF isAdminEmail(user.email, e)
                     THEN Some(<<"user", "admin">>) ELSE Some(<<"user">>),
     preferences |-> DefaultPreferences,
     isActive    |-> TRUE,
     isBanned    |-> FALSE,
     lastLoginAt |-> t]

\* dbUser.roles?.includes('admin')
HasAdmin(dbUser) ==
    dbUser.roles # None /\ \E k \in 1..Len(dbUser.roles[1]) : dbUser.roles[1][k] = "admin"

\* The promotion guard without the check for a role already held
NeedsPromotionAlways(user, dbUser, e) == isAdminEmail(user.email, e)

\* the guard of the promotion of an existing record
NeedsPromotion(user, dbUser, e) ==
    isAdminEmail(user.email, e) /\ ~HasAdmin(dbUser)

\* The promotion without the rank assignment
PromoteRolesOnly(dbUser) ==
    [dbUser EXCEPT !.roles = Some(Append(IF dbUser.roles = None THEN <<>> ELSE dbUser.roles[1], "admin"))]

\* dbUser.roles = [...(dbUser.roles || []), 'admin']; dbUser.rank = 'elite'
Promote(dbUser) ==
    [dbUser EXCEPT
       !.roles = Some(Append(IF dbUser.roles = None THEN <<>> ELSE dbUser.roles[1], "admin")),
       !.rank  = "elite"]

\* The timestamp refresh left out
TouchStale(dbUser, t) == dbUser

\* dbUser.lastLoginAt = new Date()
Touch(dbUser, t) == [dbUser EXCEPT !.lastLoginAt = t]

----------------------------------------------------------------------------
(* callbacks.signIn *)

NoCalls == [connectDB |-> 0, findOne |-> 0, findById |-> 0, insert |-> 0, save |-> 0]

Failures == {"none", "connectDB", "findOne", "ensureUniqueUsername", "insert", "save"}

Outcome(ret, st, user, calls, effect, failed) ==
    [ret |-> ret, store |-> st, user |-> user, calls |-> calls,
     effect |-> effect, failed |-> failed]

\* An operation of the try block rejects: nothing after it runs
Thrown(st, user, calls, failed) == Outcome("throw", st, user, calls, "none", failed)

\* The branch for an email without a record
signInCreate(user, st, e, t, fail, calls) ==
    LET username == ensureUniqueUsername(generateUsername(user), st)
        newUser  == NewUser(user, username[1], e, t, Len(st) + 1)
        calls2   == [calls EXCEPT !.insert = 1]
    IN  IF fail = "ensureUniqueUsername" \/ username = None
        THEN Thrown(st, user, calls, "ensureUniqueUsername")
        ELSE IF fail = "insert"
        THEN Thrown(st, user, calls2, "insert")
        ELSE Outcome("true", Append(st, newUser),
                     [user EXCEPT !.id = IdToString(newUser._id)],
                     calls2, "created", "none")

\* The update branch without the write of the record's id onto the identity
signInUpdateKeepsId(user, i, st, e, t, fail, calls) ==
    LET promoted == NeedsPromotion(user, st[i], e)
        dbUser   == Touch(IF promoted THEN Promote(st[i]) ELSE st[i], t)
        calls2   == [calls EXCEPT !.save = 1]
    IN  IF fail = "save"
        THEN Thrown(st, user, calls2, "save")
        ELSE Outcome("true", [st EXCEPT ![i] = dbUser], user, calls2,
                     IF promoted THEN "promoted" ELSE "touched", "none")

\* needsUpdate without the unconditional assignment after the timestamp
NeedsUpdateOnChange(promoted) == promoted

\* let needsUpdate = false; ...; dbUser.lastLoginAt = new Date(); needsUpdate = true
NeedsUpdate(promoted) == TRUE

\* The update branch keeping the record in step with the allow-list: an
\* address no longer listed loses 'admin' and its rank
signInUpdateRevoking(user, i, st, e, t, fail, calls) ==
    LET listed  == isAdminEmail(user.email, e)
        synced  == IF listed
                   THEN (IF HasAdmin(st[i]) THEN st[i] ELSE Promote(st[i]))
                   ELSE [st[i] EXCEPT !.roles = Some(<<"user">>), !.rank = "recruit"]
        dbUser  == Touch(synced, t)
        calls2  == [calls EXCEPT !.save = 1]
        userOut == [user EXCEPT !.id = IdToString(dbUser._id)]
    IN  IF fail = "save"
        THEN Thrown(st, user, calls2, "save")
        ELSE Outcome("true", [st EXCEPT ![i] = dbUser], userOut, calls2,
                     IF NeedsPromotion(user, st[i], e) THEN "promoted" ELSE "touched", "none")

\* The update branch copying the provider's profile into the record
signInUpdateResyncs(user, i, st, e, t, fail, calls) ==
    LET promoted == NeedsPromotion(user, st[i], e)
        touched  == Touch(IF promoted THEN Promote(st[i]) ELSE st[i], t)
        dbUser   == [touched EXCEPT !.displayName = user.name, !.image = user.image]
        calls2   == [calls EXCEPT !.save = 1]
        effect   == IF promoted THEN "promoted" ELSE "touched"
        userOut  == [user EXCEPT !.id = IdToString(dbUser._id)]
    IN  IF fail = "save"
        THEN Thrown(st, user, calls2, "save")
        ELSE Outcome("true", [st EXCEPT ![i] = dbUser], userOut, calls2, effect, "none")

\* The branch for an email with a record
signInUpdate(user, i, st, e, t, fail, calls) ==
    LET promoted == NeedsPromotion(user, st[i], e)
        dbUser   == Touch(IF promoted THEN Promote(st[i]) ELSE st[i], t)
        calls2   == [calls EXCEPT !.save = 1]
        effect   == IF promoted THEN "promoted" ELSE "touched"
        userOut  == [user EXCEPT !.id = IdToString(dbUser._id)]
    IN  IF ~NeedsUpdate(promoted)
        THEN Outcome("true", st, userOut, calls, "none", "none")
        ELSE IF fail = "save"
        THEN Thrown(st, user, calls2, "save")
        ELSE Outcome("true", [st EXCEPT ![i] = dbUser], userOut, calls2, effect, "none")

\* The try block looking the address up as written, not lower-cased
signInTryRawEmail(user, st, e, t, fail) ==
    LET c1 == [NoCalls EXCEPT !.connectDB = 1]
        c2 == [c1 EXCEPT !.findOne = 1]
        i  == findOne(st, user.email)
    IN  IF fail = "connectDB" THEN Thrown(st, user, c1, "connectDB")
        ELSE IF fail = "findOne" THEN Thrown(st, user, c2, "findOne")
        ELSE IF i = 0 THEN signInCreate(user, st, e, t, fail, c2)
        ELSE signInUpdate(user, i, st, e, t, fail, c2)

\* The body of the try block
signInTry(user, st, e, t, fail) ==
    LET c1 == [NoCalls EXCEPT !.connectDB = 1]
        c2 == [c1 EXCEPT !.findOne = 1]
        i  == findOne(st, toLowerCase(user.email))
    IN  IF fail = "connectDB" THEN Thrown(st, user, c1, "connectDB")
        ELSE IF fail = "findOne" THEN Thrown(st, user, c2, "findOne")
        ELSE IF i = 0 THEN signInCreate(user, st, e, t, fail, c2)
        ELSE signInUpdate(user, i, st, e, t, fail, c2)

\* The catch clause answering true when the insert met a duplicate key
signInCatchAcceptsDuplicate(r) ==
    IF r.ret = "throw"
    THEN [r EXCEPT !.ret = IF r.failed = "duplicate" THEN "true" ELSE "false"]
    ELSE r

\* The catch clause passing the error on instead of answering false
signInRethrow(r) == r

\* catch (error) { console.error(...); return false; }
signInCatch(r) == IF r.ret = "throw" THEN [r EXCEPT !.ret = "false"] ELSE r

\* The provider test accepting every account
ReconciledAnyProvider(account) == account # None

\* account?.provider === 'discord' || account?.provider === 'google'
Reconciled(account) == account # None /\ account[1].provider \in {"discord", "google"}

\* signIn with the username generation outside the reach of the catch clause
signInUsernameUncaught(user, account, st, e, t, fail) ==
    IF Reconciled(account)
    THEN LET r == signInTry(user, st, e, t, fail)
         IN  IF r.failed = "ensureUniqueUsername" THEN r ELSE signInCatch(r)
    ELSE Outcome("true", st, user, NoCalls, "none", "none")

\* async signIn({ user, account })
signIn(user, account, st, e, t, fail) ==
    IF Reconciled(account)
    THEN signInCatch(signInTry(user, st, e, t, fail))
    ELSE Outcome("true", st, user, NoCalls, "none", "none")

----------------------------------------------------------------------------
(* callbacks.signIn, one await at a time *)

\* The invocations that may be in flight together
Requests == {"r1", "r2"}

\* An invocation slot that holds no call
Idle ==
    [pc |-> "idle", user |-> None, idx |-> 0, before |-> None, doc |-> None,
     modified |-> {}, listed |-> FALSE, effect |-> "none", ret |-> "none",
     failed |-> "none"]

\* The collection refuses the insert of a document whose email it holds
DuplicateKey(st, doc, unique) ==
    unique /\ \E i \in 1..Len(st) : st[i].email = doc.email

\* A save that sends the promotion as a push onto the stored roles
saveModifiedPush(current, doc, modified) ==
    [k \in DOMAIN current |->
        IF k = "roles" /\ k \in modified
        THEN Some(Append(IF current.roles = None THEN <<>> ELSE current.roles[1], "admin"))
        ELSE IF k \in modified THEN doc[k] ELSE current[k]]

\* await dbUser.save(): the paths assigned since the read are written over
\* the stored document, roles as the whole array
saveModified(current, doc, modified) ==
    [k \in DOMAIN current |-> IF k \in modified THEN doc[k] ELSE current[k]]

----------------------------------------------------------------------------
(* callbacks.jwt *)

TokenKeys == {"id", "displayName", "username", "image", "rank", "roles", "isBanned", "sub"}

\* The token the framework builds for a sign-in before it calls jwt
FreshToken(user) == [k \in TokenKeys |-> IF k = "sub" THEN Some(user.id) ELSE None]

\* The projection without the default for a record that has no roles
ProjectWithoutDefault(tok, dbUser) ==
    [tok EXCEPT
       !.displayName = Some(dbUser.displayName),
       !.username    = Some(dbUser.username),
       !.image       = dbUser.image,
       !.rank        = Some(dbUser.rank),
       !.roles       = dbUser.roles,
       !.isBanned    = Some(dbUser.isBanned)]

\* token.displayName = dbUser.displayName; ...; token.isBanned = dbUser.isBanned
Project(tok, dbUser) ==
    [tok EXCEPT
       !.displayName = Some(dbUser.displayName),
       !.username    = Some(dbUser.username),
       !.image       = dbUser.image,
       !.rank        = Some(dbUser.rank),
       !.roles       = IF dbUser.roles = None THEN Some(<<"user">>) ELSE dbUser.roles,
       !.isBanned    = Some(dbUser.isBanned)]

\* The merge with the arguments exchanged: a field the token already
\* carries keeps its value
AssignTokenWins(tok, payload) ==
    [k \in DOMAIN tok |->
        IF k \in DOMAIN payload /\ tok[k] = None THEN payload[k] ELSE tok[k]]

\* Object.assign(token, session)
Assign(tok, payload) ==
    [k \in DOMAIN tok |-> IF k \in DOMAIN payload THEN payload[k] ELSE tok[k]]

JwtFailures == {"none", "connectDB", "findById"}

JwtOutcome(ret, tok, calls, failed) ==
    [ret |-> ret, token |-> tok, calls |-> calls, failed |-> failed]

\* findById rejects with a CastError when its argument is no ObjectId string
CastFails(id) == id # None /\ ~IsObjectIdString(id[1])

\* connectDB(); User.findById(id).select(...).lean(): the state r after both
Fetch(r, id, st, fail) ==
    LET c1 == [r.calls EXCEPT !.connectDB = @ + 1]
        c2 == [c1 EXCEPT !.findById = @ + 1]
    IN  IF fail = "connectDB" THEN JwtOutcome("throw", r.token, c1, "connectDB")
        ELSE IF CastFails(id) THEN JwtOutcome("throw", r.token, c2, "cast")
        ELSE IF fail = "findById" THEN JwtOutcome("throw", r.token, c2, "findById")
        ELSE JwtOutcome("ok", r.token, c2, "none")

\* if (user && account) { ... }
jwtInitial(r, user, account, st, fail) ==
    IF user # None /\ account # None
    THEN LET f == Fetch(r, Some(user[1].id), st, fail)
             i == findById(st, Some(user[1].id))
         IN  IF f.ret = "throw" \/ i = 0 THEN f
             ELSE [f EXCEPT !.token = Project([f.token EXCEPT !.id = Some(user[1].id)], st[i])]
    ELSE r

\* The refresh done on every use of the token, whatever the trigger
jwtUpdateAlways(r, trigger, payload, st, fail) ==
    IF r.ret = "ok"
    THEN LET f == Fetch(r, r.token.id, st, fail)
             i == findById(st, r.token.id)
             t == IF i = 0 THEN f.token ELSE Project(f.token, st[i])
         IN  IF f.ret = "throw" THEN f
             ELSE [f EXCEPT !.token = IF payload # None THEN Assign(t, payload[1]) ELSE t]
    ELSE r

\* if (trigger === "update") { ... }
jwtUpdate(r, trigger, payload, st, fail) ==
    IF r.ret = "ok" /\ trigger = Some("update")
    THEN LET f == Fetch(r, r.token.id, st, fail)
             i == findById(st, r.token.id)
             t == IF i = 0 THEN f.token ELSE Project(f.token, st[i])
         IN  IF f.ret = "throw" THEN f
             ELSE [f EXCEPT !.token = IF payload # None THEN Assign(t, payload[1]) ELSE t]
    ELSE r

\* async jwt({ token, user, account, trigger, session })
jwt(tok, user, account, trigger, payload, st, fail) ==
    jwtUpdate(jwtInitial(JwtOutcome("ok", tok, NoCalls, "none"), user, account, st, fail),
              trigger, payload, st, fail)

----------------------------------------------------------------------------
(* callbacks.session *)

SessionKeys == {"id", "username", "displayName", "image", "rank", "roles", "isBanned"}

\* The session object the framework hands to the callback
DefaultSessionUser == [id |-> None, username |-> None, displayName |-> None,
                       image |-> None, rank |-> None, roles |-> None,
                       isBanned |-> None, email |-> Some("mail")]

\* The session projection without the copy of the banned flag
sessionCallbackDropsBan(sess, tok) ==
    IF sess.user # None
    THEN [sess EXCEPT !.user = Some(
            [sess.user[1] EXCEPT
               !.id          = tok.id,
               !.username    = tok.username,
               !.displayName = tok.displayName,
               !.image       = tok.image,
               !.rank        = tok.rank,
               !.roles       = tok.roles])]
    ELSE sess

\* async session({ session, token })
sessionCallback(sess, tok) ==
    IF sess.user # None
    THEN [sess EXCEPT !.user = Some(
            [sess.user[1] EXCEPT
               !.id          = tok.id,
               !.username    = tok.username,
               !.displayName = tok.displayName,
               !.image       = tok.image,
               !.rank        = tok.rank,
               !.roles       = tok.roles,
               !.isBanned    = tok.isBanned])]
    ELSE sess

----------------------------------------------------------------------------
(* The rest of the application and the environment *)

\* Writes other parts of the application make to a user record: a ban, a
\* record left without its roles field, an edit of the profile
Patches ==
    { [isBanned |-> TRUE],
      [roles |-> None],
      [displayName |-> "anon", username |-> <<"anon", 0>>, image |-> Some("img2")] }

ApplyPatch(dbUser, patch) ==
    [k \in DOMAIN dbUser |-> IF k \in DOMAIN patch THEN patch[k] ELSE dbUser[k]]

\* Caller-supplied session data of useSession().update(data)
Payloads ==
    { None,
      Some([rank |-> Some("elite"), roles |-> Some(<<"user", "admin">>)]),
      Some([id |-> Some(IdToString(1)), isBanned |-> Some(FALSE)]) }

----------------------------------------------------------------------------
(* The state machine *)

Log(op, ret, user, account, trigger, payload, effect, failed, calls) ==
    [op |-> op, ret |-> ret, user |-> user, account |-> account, trigger |-> trigger,
     payload |-> payload, effect |-> effect, failed |-> failed, calls |-> calls]

\* The session object lives for one request: no request is reading a session
NoSession == [user |-> None]

Init ==
    /\ env = [ADMIN_EMAIL_1 |-> None, ADMIN_EMAIL_2 |-> Some(<<"U">>)]
    /\ store = <<>>
    /\ now = 0
    /\ pending = None
    /\ token = [k \in TokenKeys |-> None]
    /\ session = NoSession
    /\ last = Log("init", "none", None, None, None, None, "none", "none", NoCalls)
    /\ reqs = [p \in Requests |-> Idle]
    /\ uniqueEmail = TRUE

\* The framework calls callbacks.signIn for an authenticated identity
SignIn(identity, account, fail) ==
    LET user == [id |-> ProviderId(account), email |-> identity.email,
                 name |-> identity.name, image |-> identity.image]
        r    == signIn(user, account, store, env, now, fail)
    IN  /\ Len(r.store) <= MaxUsers
        /\ store' = r.store
        /\ pending' = IF r.ret = "true"
                      THEN Some([user |-> r.user, account |-> account]) ELSE None
        /\ last' = Log("signIn", r.ret, Some(user), account, None, None, r.effect, r.failed, r.calls)
        /\ session' = NoSession
        /\ UNCHANGED <<env, now, token, reqs, uniqueEmail>>

\* The framework calls callbacks.jwt with the identity signIn accepted
JwtSignIn(fail) ==
    /\ pending # None
    /\ LET user == pending[1].user
           r    == jwt(FreshToken(user), Some(user), pending[1].account,
                       Some("signIn"), None, store, fail)
       IN  /\ token' = IF r.ret = "ok" THEN r.token ELSE token
           /\ last' = Log("jwt", r.ret, Some(user), pending[1].account, Some("signIn"), None,
                          "none", r.failed, r.calls)
    /\ pending' = None
    /\ session' = NoSession
    /\ UNCHANGED <<env, store, now, reqs, uniqueEmail>>

HasToken == token.sub # None

\* The client asks for a refresh of its token: trigger "update"
JwtUpdate(payload, fail) ==
    /\ HasToken
    /\ LET r == jwt(token, None, None, Some("update"), payload, store, fail)
       IN  /\ token' = IF r.ret = "ok" THEN r.token ELSE token
           /\ last' = Log("jwt", r.ret, None, None, Some("update"), payload, "none", r.failed, r.calls)
    /\ session' = NoSession
    /\ UNCHANGED <<env, store, now, pending, reqs, uniqueEmail>>

\* Any other use of the token: no user, no account, no trigger
JwtUse ==
    /\ HasToken
    /\ LET r == jwt(token, None, None, None, None, store, "none")
       IN  /\ token' = IF r.ret = "ok" THEN r.token ELSE token
           /\ last' = Log("jwt", r.ret, None, None, None, None, "none", r.failed, r.calls)
    /\ session' = NoSession
    /\ UNCHANGED <<env, store, now, pending, reqs, uniqueEmail>>

\* A request reads the session: callbacks.session
Session(hasUser) ==
    /\ HasToken
    /\ session' = sessionCallback(
                    [user |-> IF hasUser THEN Some(DefaultSessionUser) ELSE None], token)
    /\ last' = Log("session", IF hasUser THEN "user" ELSE "nouser", None, None, None, None,
                   "none", "none", NoCalls)
    /\ UNCHANGED <<env, store, now, pending, token, reqs, uniqueEmail>>

\* The operator changes an allow-list entry of the process configuration
SetAdminEmail(name, value) ==
    /\ env[name] # value
    /\ env' = [env EXCEPT ![name] = value]
    /\ last' = Log("env", "none", None, None, None, None, "none", "none", NoCalls)
    /\ session' = NoSession
    /\ UNCHANGED <<store, now, pending, token, reqs, uniqueEmail>>

\* Another part of the application writes to a user record
ExternalUpdate(i, patch) ==
    /\ ApplyPatch(store[i], patch) # store[i]
    /\ store' = [store EXCEPT ![i] = ApplyPatch(store[i], patch)]
    /\ last' = Log("external", "none", None, None, None, None, "none", "none", NoCalls)
    /\ session' = NoSession
    /\ UNCHANGED <<env, now, pending, token, reqs, uniqueEmail>>

\* Time passes
Tick ==
    /\ now < MaxNow
    /\ now' = now + 1
    /\ last' = Log("tick", "none", None, None, None, None, "none", "none", NoCalls)
    /\ session' = NoSession
    /\ UNCHANGED <<env, store, pending, token, reqs, uniqueEmail>>

Accounts == {None} \cup { Some([provider |-> p]) : p \in Providers }

EnvNames == {"ADMIN_EMAIL_1", "ADMIN_EMAIL_2"}

\* The Identity Reconciler with its environment, the store answering
Next ==
    \/ \E identity \in Identities, account \in Accounts : SignIn(identity, account, "none")
    \/ \E name \in EnvNames : \E value \in AdminEnvValues[name] : SetAdminEmail(name, value)
    \/ \E i \in 1..Len(store) : ExternalUpdate(i, [roles |-> None])
    \/ Tick

Spec == Init /\ [][Next]_vars

\* The Identity Reconciler with store operations that may fail
NextFailure ==
    \/ \E identity \in Identities, account \in Accounts, fail \in Failures :
         SignIn(identity, account, fail)
    \/ \E name \in EnvNames : \E value \in AdminEnvValues[name] : SetAdminEmail(name, value)

SpecFailure == Init /\ [][NextFailure]_vars

\* The Token Projector, fed by sign-ins of the identity written in capitals
TokenIdentities == { id \in Identities : id.email = <<"A", "D">> }

NextToken ==
    \/ \E identity \in TokenIdentities, account \in Accounts :
         SignIn(identity, account, "none")
    \/ \E fail \in JwtFailures : JwtSignIn(fail)
    \/ \E payload \in Payloads, fail \in JwtFailures : JwtUpdate(payload, fail)
    \/ JwtUse
    \/ \E hasUser \in BOOLEAN : Session(hasUser)
    \/ \E value \in AdminEnvValues["ADMIN_EMAIL_1"] : SetAdminEmail("ADMIN_EMAIL_1", value)
    \/ \E i \in 1..Len(store), patch \in Patches : ExternalUpdate(i, patch)

SpecToken == Init /\ [][NextToken]_vars

----------------------------------------------------------------------------
(* signIn invocations in flight together: each step runs the code from one  *)
(* await to the next against the collection as it is at that moment.        *)

\* What the steps of signIn leave alone
Others == <<now, pending, token, session, last, uniqueEmail>>

\* The framework calls signIn; the provider test passes, connectDB is awaited
SignInCall(p, identity, account) ==
    /\ reqs[p].pc = "idle"
    /\ Reconciled(account)
    /\ reqs' = [reqs EXCEPT ![p] =
          [Idle EXCEPT !.pc = "findOne",
                       !.user = Some([id |-> ProviderId(account), email |-> identity.email,
                                      name |-> identity.name, image |-> identity.image])]]
    /\ UNCHANGED <<env, store>> /\ UNCHANGED Others

\* User.findOne answers; without a record the username is asked for, with
\* one the record read is promoted and stamped in memory and save is awaited
SignInFindOne(p) ==
    /\ reqs[p].pc = "findOne"
    /\ LET user     == reqs[p].user[1]
           i        == findOne(store, toLowerCase(user.email))
           promoted == NeedsPromotion(user, store[i], env)
           dbUser   == Touch(IF promoted THEN Promote(store[i]) ELSE store[i], now)
       IN  reqs' = [reqs EXCEPT ![p] =
              IF i = 0
              THEN [@ EXCEPT !.pc = "ensureUniqueUsername"]
              ELSE IF ~NeedsUpdate(promoted)
              THEN [@ EXCEPT !.pc = "done", !.ret = "true", !.idx = i,
                             !.before = Some(store[i]),
                             !.user = Some([user EXCEPT !.id = IdToString(store[i]._id)])]
              ELSE [@ EXCEPT !.pc = "save", !.idx = i,
                             !.before = Some(store[i]), !.doc = Some(dbUser),
                             !.modified = IF promoted THEN {"roles", "rank", "lastLoginAt"}
                                          ELSE {"lastLoginAt"},
                             !.listed = isAdminEmail(user.email, env),
                             !.effect = IF promoted THEN "promoted" ELSE "touched"]]
    /\ UNCHANGED <<env, store>> /\ UNCHANGED Others

\* ensureUniqueUsername answers; the new document is built and its save is
\* awaited, or the generator's failure reaches the catch clause
SignInEnsureUniqueUsername(p) ==
    /\ reqs[p].pc = "ensureUniqueUsername"
    /\ LET user     == reqs[p].user[1]
           username == ensureUniqueUsername(generateUsername(user), store)
           r        == signInCatch(Thrown(store, user, NoCalls, "ensureUniqueUsername"))
       IN  reqs' = [reqs EXCEPT ![p] =
              IF username = None
              THEN [@ EXCEPT !.pc = "done", !.ret = r.ret, !.failed = r.failed]
              ELSE [@ EXCEPT !.pc = "insert",
                             !.doc = Some(NewUser(user, username[1], env, now, 0)),
                             !.listed = isAdminEmail(user.email, env)]]
    /\ UNCHANGED <<env, store>> /\ UNCHANGED Others

\* newUser.save() answers: the document is in the collection under the next
\* _id, or the collection refused it and the catch clause runs
SignInInsert(p) ==
    /\ reqs[p].pc = "insert"
    /\ LET user    == reqs[p].user[1]
           newUser == [reqs[p].doc[1] EXCEPT !._id = Len(store) + 1]
           r       == signInCatch(Thrown(store, user, NoCalls, "duplicate"))
       IN  IF DuplicateKey(store, newUser, uniqueEmail)
           THEN /\ reqs' = [reqs EXCEPT ![p] =
                     [@ EXCEPT !.pc = "done", !.ret = r.ret, !.failed = r.failed]]
                /\ store' = store
           ELSE /\ Len(store) < MaxUsers
                /\ store' = Append(store, newUser)
                /\ reqs' = [reqs EXCEPT ![p] =
                     [@ EXCEPT !.pc = "done", !.ret = "true", !.effect = "created",
                               !.idx = Len(store) + 1, !.doc = Some(newUser),
                               !.user = Some([user EXCEPT !.id = IdToString(newUser._id)])]]
    /\ UNCHANGED env /\ UNCHANGED Others

\* dbUser.save() answers: the assigned paths are in the stored record
SignInSave(p) ==
    /\ reqs[p].pc = "save"
    /\ LET user == reqs[p].user[1]
           i    == reqs[p].idx
       IN  /\ store' = [store EXCEPT ![i] =
                          saveModified(store[i], reqs[p].doc[1], reqs[p].modified)]
           /\ reqs' = [reqs EXCEPT ![p] =
                [@ EXCEPT !.pc = "done", !.ret = "true",
                          !.user = Some([user EXCEPT !.id = IdToString(reqs[p].doc[1]._id)])]]
    /\ UNCHANGED env /\ UNCHANGED Others

\* The framework has the answer of signIn; the slot is free for another call
SignInReturn(p) ==
    /\ reqs[p].pc = "done"
    /\ reqs' = [reqs EXCEPT ![p] = Idle]
    /\ UNCHANGED <<env, store>> /\ UNCHANGED Others

\* The collection either has the unique index on email or lacks it
InitConcurrent ==
    /\ env = [ADMIN_EMAIL_1 |-> None, ADMIN_EMAIL_2 |-> Some(<<"U">>)]
    /\ store = <<>>
    /\ now = 0
    /\ pending = None
    /\ token = [k \in TokenKeys |-> None]
    /\ session = NoSession
    /\ last = Log("init", "none", None, None, None, None, "none", "none", NoCalls)
    /\ reqs = [p \in Requests |-> Idle]
    /\ uniqueEmail \in BOOLEAN

NextConcurrent ==
    \/ \E p \in Requests, identity \in Identities, account \in Accounts :
         SignInCall(p, identity, account)
    \/ \E p \in Requests : SignInFindOne(p)
    \/ \E p \in Requests : SignInEnsureUniqueUsername(p)
    \/ \E p \in Requests : SignInInsert(p)
    \/ \E p \in Requests : SignInSave(p)
    \/ \E p \in Requests : SignInReturn(p)
    \/ \E value \in AdminEnvValues["ADMIN_EMAIL_1"] : SetAdminEmail("ADMIN_EMAIL_1", value)

SpecConcurrent == InitConcurrent /\ [][NextConcurrent]_vars

----------------------------------------------------------------------------
(* Vocabulary of the properties *)

\* The address is in the admin allow-list, compared case-insensitively
AllowListed(email) ==
    \E name \in DOMAIN env :
        env[name] # None /\ toLowerCase(env[name][1]) = toLowerCase(email)

\* The records of a collection that carry the address, lower-cased
RecordsOf(st, email) == { i \in 1..Len(st) : st[i].email = toLowerCase(email) }

\* The role entries of a record, as an array and as a set
RolesArray(dbUser) == IF dbUser.roles = None THEN <<>> ELSE dbUser.roles[1]
RoleSet(dbUser) == { RolesArray(dbUser)[k] : k \in 1..Len(RolesArray(dbUser)) }
AdminCount(dbUser) ==
    Cardinality({ k \in 1..Len(RolesArray(dbUser)) : RolesArray(dbUser)[k] = "admin" })

\* The last handler run was signIn for provider discord or google
ReconciledSignIn ==
    /\ last.op = "signIn"
    /\ last.account # None
    /\ last.account[1].provider \in {"discord", "google"}

\* ... and it returned true
SuccessfulSignIn == ReconciledSignIn /\ last.ret = "true"

\* The address the last signIn was called with
SignInEmail == last.user[1].email

----------------------------------------------------------------------------
(* C1: a successful discord/google sign-in of an address without a record   *)
(* inserts exactly one record: the address lower-cased, level 1, no badges, *)
(* zero counters, not banned, active, and rank 'elite' with roles           *)
(* ['user','admin'] exactly when the address is allow-listed                *)
(* (case-insensitively), rank 'recruit' with roles ['user'] otherwise.      *)
C1_FirstSignInCreatesRecord ==
    [][ (SuccessfulSignIn' /\ RecordsOf(store, SignInEmail') = {}) =>
          /\ Len(store') = Len(store) + 1
          /\ SubSeq(store', 1, Len(store)) = store
          /\ RecordsOf(store', SignInEmail') = {Len(store')}
          /\ LET rec == store'[Len(store')]
             IN  /\ rec.email = toLowerCase(SignInEmail')
                 /\ rec.level = 1
                 /\ rec.badges = <<>>
                 /\ \A c \in DOMAIN rec.stats : rec.stats[c] = 0
                 /\ rec.isBanned = FALSE
                 /\ rec.isActive = TRUE
                 /\ IF AllowListed(SignInEmail')
                    THEN rec.rank = "elite" /\ rec.roles = Some(<<"user", "admin">>)
                    ELSE rec.rank = "recruit" /\ rec.roles = Some(<<"user">>) ]_vars

\* An address written in capitals, listed in another spelling, got its record
C1_Witness ==
    /\ SuccessfulSignIn
    /\ last.effect = "created"
    /\ SignInEmail = <<"A", "D">>
    /\ AllowListed(SignInEmail)
    /\ Len(store) = 2
    /\ store[2].roles = Some(<<"user", "admin">>)

(* C2: a signIn call never removes a role from an existing record and never *)
(* turns rank 'elite' into 'recruit', whatever the allow-list says now.     *)
C2_SignInNeverRevokes ==
    [][ last'.op = "signIn" =>
          /\ Len(store') >= Len(store)
          /\ \A i \in 1..Len(store) :
                /\ RoleSet(store[i]) \subseteq RoleSet(store'[i])
                /\ (store[i].rank = "elite" => store'[i].rank # "recruit") ]_vars

\* An admin whose address left the allow-list signed in and kept the role
C2_Witness ==
    /\ SuccessfulSignIn
    /\ last.effect = "touched"
    /\ ~AllowListed(SignInEmail)
    /\ \E i \in RecordsOf(store, SignInEmail) :
          /\ "admin" \in RoleSet(store[i])
          /\ store[i].rank = "elite"
          /\ store[i].lastLoginAt = now
          /\ now > 0

(* C3: every successful sign-in of an allow-listed address leaves exactly   *)
(* one 'admin' entry in the record's roles, and a sign-in that follows      *)
(* another one of the same address leaves the roles as they were.           *)
C3_OneAdminEntry ==
    [][ (SuccessfulSignIn' /\ AllowListed(SignInEmail')) =>
          /\ \A i \in RecordsOf(store', SignInEmail') : AdminCount(store'[i]) = 1
          /\ (SuccessfulSignIn /\ toLowerCase(SignInEmail) = toLowerCase(SignInEmail'))
               => \A i \in RecordsOf(store, SignInEmail') :
                     store'[i].roles = store[i].roles ]_vars

\* A later sign-in of an allow-listed address that already held 'admin'
C3_Witness ==
    /\ SuccessfulSignIn
    /\ last.effect = "touched"
    /\ AllowListed(SignInEmail)
    /\ \E i \in RecordsOf(store, SignInEmail) :
          /\ AdminCount(store[i]) = 1
          /\ store[i].lastLoginAt = now
          /\ now > 0

(* C4: a successful sign-in of an existing record without 'admin' whose     *)
(* address is allow-listed appends 'admin' to roles, sets rank 'elite',     *)
(* sets lastLoginAt to the time of the call and saves exactly once.         *)
C4_PromotionOnSignIn ==
    [][ SuccessfulSignIn' =>
          \A i \in RecordsOf(store, SignInEmail') :
             ("admin" \notin RoleSet(store[i]) /\ AllowListed(SignInEmail')) =>
                 /\ store'[i].roles = Some(Append(RolesArray(store[i]), "admin"))
                 /\ store'[i].rank = "elite"
                 /\ store'[i].lastLoginAt = now
                 /\ last'.calls.save = 1
                 /\ last'.calls.insert = 0 ]_vars

\* A record created as a recruit was promoted by a later sign-in
C4_Witness ==
    /\ SuccessfulSignIn
    /\ last.effect = "promoted"
    /\ last.calls.save = 1
    /\ now > 0
    /\ \E i \in RecordsOf(store, SignInEmail) :
          /\ store[i].roles = Some(<<"user", "admin">>)
          /\ store[i].rank = "elite"
          /\ store[i].lastLoginAt = now

----------------------------------------------------------------------------
(* Vocabulary of the token properties *)

\* The last handler run was jwt; with user and account: initial issuance
JwtRan == last.op = "jwt"
InitialIssuance == JwtRan /\ last.user # None /\ last.account # None
Refresh == JwtRan /\ last.trigger = Some("update")

\* The token fields a refresh takes from the record
RefreshedKeys == {"displayName", "username", "image", "rank", "roles", "isBanned"}

\* The records the token's id names
RecordsOfToken(st, tok) == { i \in 1..Len(st) : tok.id = Some(IdToString(st[i]._id)) }

\* The token's six record fields carry the record's current values
MirrorsRecord(tok, dbUser) ==
    /\ tok.displayName = Some(dbUser.displayName)
    /\ tok.username = Some(dbUser.username)
    /\ tok.image = dbUser.image
    /\ tok.rank = Some(dbUser.rank)
    /\ tok.roles = Some(IF dbUser.roles = None THEN <<"user">> ELSE dbUser.roles[1])
    /\ tok.isBanned = Some(dbUser.isBanned)

(* C5: after the session callback ran on a session with a user object, the  *)
(* session user's id, displayName, username, image, rank, roles and         *)
(* isBanned equal the token's fields of the same names, and the callback    *)
(* made no store call.                                                      *)
C5_SessionMirrorsToken ==
    (last.op = "session" /\ last.ret = "user") =>
        /\ session.user # None
        /\ \A k \in {"id", "displayName", "username", "image", "rank", "roles", "isBanned"} :
              session.user[1][k] = token[k]
        /\ last.calls = NoCalls

\* The record was banned after the token was written: the session does not show it
C5_Witness ==
    /\ last.op = "session"
    /\ last.ret = "user"
    /\ session.user[1].isBanned = Some(FALSE)
    /\ session.user[1].rank = Some("recruit")
    /\ \E i \in RecordsOfToken(store, token) : store[i].isBanned

(* C6: a jwt call that is neither initial issuance nor a refresh makes no   *)
(* store call, leaves the store alone and returns the token it was given    *)
(* with every field unchanged, whatever the record in the store holds.      *)
C6_PassThrough ==
    [][ (JwtRan' /\ ~InitialIssuance' /\ ~Refresh') =>
          /\ last'.ret = "ok"
          /\ last'.calls = NoCalls
          /\ store' = store
          /\ token' = IF last'.user = None THEN token ELSE FreshToken(last'.user[1]) ]_vars

\* The token was used after its record had changed in the store
C6_Witness ==
    /\ JwtRan /\ ~InitialIssuance /\ ~Refresh
    /\ last.user = None
    /\ \E i \in RecordsOfToken(store, token) :
          ~MirrorsRecord(token, store[i])

(* C7, as the claim states it: a refresh without merge payload overwrites   *)
(* five token fields, so at most five fields of the token change.           *)
C7_FiveFields ==
    [][ (Refresh' /\ last'.payload = None /\ last'.ret = "ok") =>
          Cardinality({ k \in TokenKeys : token'[k] # token[k] }) <= 5 ]_vars

(* C7, amended: a refresh without merge payload re-fetches the record by    *)
(* the id in the token and overwrites the six fields displayName, username, *)
(* image, rank, roles (['user'] when absent) and isBanned with the record's *)
(* values; every other token field, id included, is left as it was, and     *)
(* without a record the whole token is.                                     *)
C7_RefreshSixFields ==
    [][ (Refresh' /\ last'.payload = None /\ last'.ret = "ok") =>
          /\ \A k \in TokenKeys \ RefreshedKeys : token'[k] = token[k]
          /\ \A i \in RecordsOfToken(store, token) : MirrorsRecord(token', store[i])
          /\ RecordsOfToken(store, token) = {} => token' = token
          /\ last'.calls.findById = 1 ]_vars

\* A refresh picked up a ban and the default for absent roles
C7_Witness ==
    /\ Refresh /\ last.payload = None /\ last.ret = "ok"
    /\ token.isBanned = Some(TRUE)
    /\ token.roles = Some(<<"user">>)
    /\ \E i \in RecordsOfToken(store, token) : store[i].roles = None

(* C8: the initial-issuance jwt call that follows a successful discord or   *)
(* google sign-in, the store answering, sets the token's id to the id of    *)
(* the record of the lower-cased address and its displayName, username,     *)
(* image, rank, roles (['user'] when absent) and isBanned to that record's  *)
(* current values.                                                          *)
C8_IssuedTokenMirrorsRecord ==
    (/\ InitialIssuance
     /\ last.account[1].provider \in {"discord", "google"}
     /\ last.failed \notin {"connectDB", "findById"}) =>
        /\ last.ret = "ok"
        /\ RecordsOf(store, last.user[1].email) # {}
        /\ \A i \in RecordsOf(store, last.user[1].email) :
              /\ token.id = Some(IdToString(store[i]._id))
              /\ MirrorsRecord(token, store[i])

\* The token of a sign-in that promoted a record without roles shows the promotion
C8_Witness ==
    /\ InitialIssuance
    /\ last.ret = "ok"
    /\ last.account[1].provider \in {"discord", "google"}
    /\ token.roles = Some(<<"admin">>)
    /\ token.rank = Some("elite")

----------------------------------------------------------------------------
(* Failures *)

\* The store operations of signIn
StoreOps == {"connectDB", "findOne", "insert", "save"}

(* C9: when connectDB, the lookup by email, the insert of a new record or   *)
(* the save of an existing one fails in a discord/google signIn, signIn     *)
(* returns false, the failing operation was called once and nothing after   *)
(* it, and the store is as it was.                                          *)
C9_StoreFailureRefuses ==
    [][ (ReconciledSignIn' /\ last'.failed \in StoreOps) =>
          /\ last'.ret = "false"
          /\ last'.calls[last'.failed] = 1
          /\ \A op \in DOMAIN last'.calls : last'.calls[op] <= 1
          /\ (last'.failed = "connectDB" => last'.calls.findOne = 0)
          /\ (last'.failed \in {"connectDB", "findOne"} =>
                 last'.calls.insert = 0 /\ last'.calls.save = 0)
          /\ store' = store
          /\ pending' = None ]_vars

\* The save of a promotion failed: the sign-in was refused, the record not promoted
C9_Witness ==
    /\ ReconciledSignIn
    /\ last.failed = "save"
    /\ last.ret = "false"
    /\ AllowListed(SignInEmail)
    /\ \E i \in RecordsOf(store, SignInEmail) : "admin" \notin RoleSet(store[i])

(* C10, as the claim states it: a failure of ensureUniqueUsername during    *)
(* the creation of a record leaves signIn as an uncaught failure, not as a  *)
(* refusal, and no record is created.                                       *)
C10_UsernameFailureUncaught ==
    (ReconciledSignIn /\ last.failed = "ensureUniqueUsername") =>
        /\ last.ret = "throw"
        /\ RecordsOf(store, SignInEmail) = {}

(* C10, amended: a failure of ensureUniqueUsername during the creation of a *)
(* record is caught by signIn's catch clause: signIn returns false, no      *)
(* insert is attempted and no record is created.                            *)
C10_UsernameFailureRefused ==
    [][ (ReconciledSignIn' /\ last'.failed = "ensureUniqueUsername") =>
          /\ last'.ret = "false"
          /\ last'.calls.insert = 0
          /\ store' = store
          /\ RecordsOf(store', SignInEmail') = {}
          /\ pending' = None ]_vars

\* The handle of the profile name was taken and no suffix was left
C10_Witness ==
    /\ ReconciledSignIn
    /\ last.failed = "ensureUniqueUsername"
    /\ last.ret = "false"
    /\ \E i \in 1..Len(store) : store[i].username = <<last.user[1].name, MaxSuffix>>
    /\ RecordsOf(store, SignInEmail) = {}

----------------------------------------------------------------------------
(* C13: on a refresh that carries caller-supplied session data, every field *)
(* of that data ends in the token with the caller's value, whatever the     *)
(* store holds; a field the data lacks has the re-fetched value if it is    *)
(* one of the six record fields and a record was found, its previous value  *)
(* otherwise.                                                               *)
C13_PayloadWins ==
    [][ (Refresh' /\ last'.payload # None /\ last'.ret = "ok") =>
          LET data == last'.payload[1]
              hits == RecordsOfToken(store, token)
          IN  /\ \A k \in DOMAIN data : token'[k] = data[k]
              /\ \A k \in (TokenKeys \ DOMAIN data) \ RefreshedKeys : token'[k] = token[k]
              /\ hits = {} => \A k \in TokenKeys \ DOMAIN data : token'[k] = token[k]
              /\ \A i \in hits :
                    \A k \in RefreshedKeys \ DOMAIN data :
                       token'[k] = Project(token, store[i])[k] ]_vars

\* The caller made itself an admin in the token of a record that is a recruit
C13_Witness ==
    /\ Refresh /\ last.payload # None /\ last.ret = "ok"
    /\ "rank" \in DOMAIN last.payload[1]
    /\ token.rank = Some("elite")
    /\ token.roles = Some(<<"user", "admin">>)
    /\ \E i \in RecordsOfToken(store, token) :
          /\ store[i].rank = "recruit"
          /\ store[i].isBanned
          /\ token.isBanned = Some(TRUE)

(* C14: successful sign-ins with the same address through discord and       *)
(* google, in either order and in any letter case, resolve to one record:   *)
(* a sign-in of an address that has a record adds no record, the address    *)
(* has exactly one record afterwards, and user.id is that record's id.      *)
C14_OneRecordAcrossProviders ==
    [][ SuccessfulSignIn' =>
          /\ Cardinality(RecordsOf(store', SignInEmail')) = 1
          /\ \A i \in RecordsOf(store', SignInEmail') :
                pending'[1].user.id = IdToString(store'[i]._id)
          /\ RecordsOf(store, SignInEmail') # {} =>
                /\ Len(store') = Len(store)
                /\ RecordsOf(store', SignInEmail') = RecordsOf(store, SignInEmail')
          /\ (SuccessfulSignIn /\ toLowerCase(SignInEmail) = toLowerCase(SignInEmail')) =>
                /\ Len(store') = Len(store)
                /\ pending'[1].user.id = pending[1].user.id ]_vars

\* The record made by the sign-in in small letters serves the google sign-in
\* in capitals
C14_Witness ==
    /\ SuccessfulSignIn
    /\ last.account[1].provider = "google"
    /\ SignInEmail = <<"A", "D">>
    /\ last.effect # "created"
    /\ \E i \in RecordsOf(store, SignInEmail) :
          /\ store[i].displayName = "ann"
          /\ store[i].email = <<"a", "d">>
          /\ pending[1].user.id = IdToString(store[i]._id)
    /\ Cardinality(RecordsOf(store, SignInEmail)) = 1

(* C15: every successful discord/google sign-in of an address that has a    *)
(* record saves the record exactly once and sets its lastLoginAt to the     *)
(* current time, also when the address is not allow-listed or the record    *)
(* already holds 'admin'.                                                   *)
C15_EverySignInWrites ==
    [][ (SuccessfulSignIn' /\ RecordsOf(store, SignInEmail') # {}) =>
          /\ last'.calls.save = 1
          /\ last'.calls.insert = 0
          /\ last'.effect \in {"promoted", "touched"}
          /\ \E i \in RecordsOf(store, SignInEmail') : store'[i].lastLoginAt = now ]_vars

\* A sign-in that promotes nothing still wrote the login time
C15_Witness ==
    /\ SuccessfulSignIn
    /\ last.effect = "touched"
    /\ last.calls.save = 1
    /\ ~AllowListed(SignInEmail)
    /\ now > 0
    /\ \E i \in RecordsOf(store, SignInEmail) :
          /\ "admin" \notin RoleSet(store[i])
          /\ store[i].rank = "recruit"
          /\ store[i].lastLoginAt = now

(* C16: a signIn whose provider is neither discord nor google, or that has  *)
(* no account, returns true, calls no store operation, leaves the store as  *)
(* it was and hands the identity object on unmodified, id included.         *)
C16_OtherProviderUntouched ==
    [][ (last'.op = "signIn" /\ ~ReconciledSignIn') =>
          /\ last'.ret = "true"
          /\ last'.calls = NoCalls
          /\ store' = store
          /\ pending' # None
          /\ pending'[1].user = last'.user[1]
          /\ pending'[1].user.id = ProviderId(last'.account) ]_vars

\* A github sign-in of an address that has a record left the record alone
C16_Witness ==
    /\ last.op = "signIn"
    /\ last.account # None
    /\ last.account[1].provider = "github"
    /\ last.ret = "true"
    /\ now > 0
    /\ \E i \in RecordsOf(store, SignInEmail) :
          /\ store[i].lastLoginAt < now
          /\ pending[1].user.id # IdToString(store[i]._id)

(* C17: in a store that starts empty and that only signIn writes to, every  *)
(* record has 'user' among its roles, and a record with 'admin' among its   *)
(* roles has rank 'elite', after any sequence of sign-ins and allow-list    *)
(* changes.                                                                 *)
C17_RolesWellFormed ==
    \A i \in 1..Len(store) :
        /\ store[i].roles # None
        /\ "user" \in RoleSet(store[i])
        /\ ("admin" \in RoleSet(store[i]) => store[i].rank = "elite")

\* A record made as a plain user was promoted, next to one made as an admin
C17_Witness ==
    /\ SuccessfulSignIn
    /\ last.effect = "promoted"
    /\ Len(store) = 2
    /\ \E i \in RecordsOf(store, SignInEmail) :
          /\ store[i].roles = Some(<<"user", "admin">>)
          /\ store[i].rank = "elite"

\* The fields of a record that signIn never assigns on the update branch
KeptFields ==
    {"_id", "email", "username", "displayName", "image", "level", "badges",
     "stats", "preferences", "isActive", "isBanned", "vrHeadset"}

(* C18: a signIn of an address that has a record changes at most roles,     *)
(* rank and lastLoginAt of that record: email, username, displayName,       *)
(* image, level, badges, stats, preferences, isActive and isBanned stay as  *)
(* they were, no other record changes, and it returns true also when the    *)
(* record is banned.                                                        *)
C18_ProfileNotResynced ==
    [][ (ReconciledSignIn' /\ RecordsOf(store, SignInEmail') # {}) =>
          /\ last'.ret = "true"
          /\ Len(store') = Len(store)
          /\ \A i \in 1..Len(store) :
                /\ \A k \in KeptFields : store'[i][k] = store[i][k]
                /\ i # findOne(store, toLowerCase(SignInEmail')) => store'[i] = store[i] ]_vars

\* A banned user whose profile was edited signed in: still banned, profile
\* still the edited one and not the provider's
C18_Witness ==
    /\ SuccessfulSignIn
    /\ last.effect \in {"promoted", "touched"}
    /\ \E i \in RecordsOf(store, SignInEmail) :
          /\ store[i].isBanned
          /\ store[i].displayName = "anon"
          /\ store[i].displayName # last.user[1].name
          /\ store[i].image # last.user[1].image

----------------------------------------------------------------------------
(* Vocabulary of the properties of invocations in flight *)

\* The invocation has its answer
Done(p) == reqs[p].pc = "done"

\* The invocation found no record and had its insert answered
Inserting(p) == Done(p) /\ (reqs[p].effect = "created" \/ reqs[p].failed = "duplicate")

\* Two invocations were called with the same mailbox
SameMailbox(p, q) ==
    toLowerCase(reqs[p].user[1].email) = toLowerCase(reqs[q].user[1].email)

(* C11: when the collection enforces unique emails, in every interleaving   *)
(* of concurrent signIn calls no two records carry the same email, an       *)
(* invocation whose insert met a duplicate key answers false, and of two    *)
(* invocations of one mailbox that both found no record and inserted        *)
(* exactly one succeeded.                                                   *)
C11_UniqueEmailOneInsert ==
    uniqueEmail =>
      /\ \A i, j \in 1..Len(store) : store[i].email = store[j].email => i = j
      /\ \A p \in Requests :
            reqs[p].failed = "duplicate" => Done(p) /\ reqs[p].ret = "false"
      /\ \A p, q \in Requests :
            (p # q /\ Inserting(p) /\ Inserting(q) /\ SameMailbox(p, q)) =>
               /\ (reqs[p].ret = "true") # (reqs[q].ret = "true")
               /\ Cardinality(RecordsOf(store, reqs[p].user[1].email)) = 1

\* Both calls found no record; one inserted, the other was refused
C11_Witness ==
    /\ uniqueEmail
    /\ \E p, q \in Requests :
          /\ Inserting(p) /\ Inserting(q) /\ SameMailbox(p, q)
          /\ reqs[p].effect = "created" /\ reqs[p].ret = "true"
          /\ reqs[q].failed = "duplicate" /\ reqs[q].ret = "false"
          /\ reqs[p].user[1].email # reqs[q].user[1].email
          /\ Cardinality(RecordsOf(store, reqs[p].user[1].email)) = 1

(* C12: two concurrent signIn calls of one mailbox without a record can     *)
(* both find no record and both insert; when the collection does not        *)
(* enforce unique emails no insert is refused, so both answer true and the  *)
(* mailbox has two records, each call holding the id of its own.            *)
C12_NoUniqueEmailTwoRecords ==
    ~uniqueEmail =>
      /\ \A p \in Requests : reqs[p].failed # "duplicate"
      /\ \A p, q \in Requests :
            (p # q /\ Inserting(p) /\ Inserting(q) /\ SameMailbox(p, q)) =>
               /\ reqs[p].ret = "true" /\ reqs[q].ret = "true"
               /\ Cardinality(RecordsOf(store, reqs[p].user[1].email)) = 2
               /\ reqs[p].user[1].id # reqs[q].user[1].id

\* Both calls answered true and the mailbox has two records
C12_Witness ==
    /\ ~uniqueEmail
    /\ \E p, q \in Requests :
          /\ p # q /\ Inserting(p) /\ Inserting(q) /\ SameMailbox(p, q)
          /\ reqs[p].ret = "true" /\ reqs[q].ret = "true"
          /\ Len(store) = 2
          /\ store[1].email = store[2].email
          /\ reqs[p].user[1].id = IdToString(store[1]._id)
          /\ reqs[q].user[1].id = IdToString(store[2]._id)

(* C19: when two concurrent signIn calls of an allow-listed mailbox worked  *)
(* on the same existing record and one of them read it without 'admin',     *)
(* the record has exactly one 'admin' entry and rank 'elite' once both have *)
(* answered, and holds every role either call read.                         *)
C19_ConcurrentPromotionOnce ==
    \A p, q \in Requests :
        ( /\ p # q /\ Done(p) /\ Done(q)
          /\ reqs[p].effect \in {"promoted", "touched"}
          /\ reqs[q].effect \in {"promoted", "touched"}
          /\ reqs[p].idx = reqs[q].idx
          /\ reqs[p].listed /\ reqs[q].listed
          /\ ~HasAdmin(reqs[p].before[1]) ) =>
            LET dbUser == store[reqs[p].idx]
            IN  /\ AdminCount(dbUser) = 1
                /\ dbUser.rank = "elite"
                /\ RoleSet(reqs[p].before[1]) \subseteq RoleSet(dbUser)
                /\ RoleSet(reqs[q].before[1]) \subseteq RoleSet(dbUser)
                /\ reqs[p].ret = "true" /\ reqs[q].ret = "true"

\* Both calls read the record without 'admin', both promoted it and saved
C19_Witness ==
    \E p, q \in Requests :
        /\ p # q /\ Done(p) /\ Done(q)
        /\ reqs[p].effect = "promoted" /\ reqs[q].effect = "promoted"
        /\ reqs[p].idx = reqs[q].idx
        /\ reqs[p].before[1].roles = Some(<<"user">>)
        /\ reqs[q].before[1].roles = Some(<<"user">>)
        /\ store[reqs[p].idx].roles = Some(<<"user", "admin">>)
        /\ store[reqs[p].idx].rank = "elite"

====
